---- MODULE Spec2Model ----
(***************************************************************************)
(* The task store of app.js: createStore's closure state, its hydration    *)
(* from localStorage, persist, list, add, toggle and remove.               *)
(*                                                                         *)
(* JavaScript arrays and objects are references, so the model keeps a heap *)
(* of cells and the closure variable `state` holds the address of an       *)
(* array cell; every .map/.concat/.filter/object literal of the source     *)
(* allocates.  Scalar JavaScript values are written as their source        *)
(* literal ("'a'", "true", "1", "undefined", "null").                      *)
(***************************************************************************)
EXTENDS Integers, Sequences, FiniteSets, TLC

VARIABLES
  localStorage,  \* key -> stored text (the browser's localStorage)
  heap,          \* sequence of cells; an address is an index into it
  state,         \* store -> address of the closure's `state` array (0: not constructed)
  snap,          \* store -> address of the snapshot last returned to the caller (0: none)
  lastOp,        \* history: the last call, its injected storage fault and its outcome
  hist,          \* history: store -> what its caller did since construction
  page,          \* the document: the two rendered lists, the analytics line, the error
  sumIn,         \* the argument of the last call of summarize
  sumOut         \* what that call returned

\* what the store's closures never touch
ui == <<page, sumIn, sumOut>>

vars == <<localStorage, heap, state, snap, lastOp, hist, page, sumIn, sumOut>>

(* ------------------------------ bounds -------------------------------- *)

\* longest collection an add is still offered on, and longest seeded array
MaxLen == 2

\* in the two-page runs an add is offered while the two collections together
\* hold fewer tasks than this
MaxTabTasks == 2

\* summarize is applied to every list of at most this many tasks
MaxSumLen == 6

\* and to one long list of this many tasks, all done but the last
LongLen == 2001

(* ------------------------- JavaScript values -------------------------- *)

Undefined == "undefined"
\* a property that a JSON object text does not have
Absent == "<absent>"

\* !!v
Truthy(v) == v \notin {"undefined", "null", "false", "0", "''", "NaN"}

BoolLit(b) == IF b THEN "true" ELSE "false"

SID4 == "6092"
StorageKey == "focustasks_6092"

Stores == {1, 2}

Range(f) == {f[i] : i \in DOMAIN f}

(* ------------------------------ the heap ------------------------------ *)

Obj(id, title, done) ==
  [kind |-> "object", id |-> id, title |-> title, done |-> done, elems |-> <<>>]

Arr(refs) ==
  [kind |-> "array", id |-> Undefined, title |-> Undefined, done |-> FALSE, elems |-> refs]

TaskOf(cell) == [id |-> cell.id, title |-> cell.title, done |-> cell.done]

\* the tasks an array cell holds, read through its element references
TasksAt(h, a) == [i \in 1..Len(h[a].elems) |-> TaskOf(h[h[a].elems[i]])]

\* h extended with one new object per task of ts, in order
AllocObjs(h, ts) == h \o [i \in 1..Len(ts) |-> Obj(ts[i].id, ts[i].title, ts[i].done)]

\* an array literal / the array a .map, .concat or .filter returns
AllocArr(h, refs) == [heap |-> Append(h, Arr(refs)), ref |-> Len(h) + 1]

RECURSIVE Dedup(_, _)
Dedup(s, acc) ==
  IF s = <<>> THEN acc
  ELSE IF Head(s) \in Range(acc) THEN Dedup(Tail(s), acc)
  ELSE Dedup(Tail(s), Append(acc, Head(s)))

RECURSIVE Visit(_, _)
Visit(h, roots) ==
  IF roots = <<>> THEN <<>>
  ELSE IF Head(roots) = 0 THEN Visit(h, Tail(roots))
  ELSE <<Head(roots)>> \o h[Head(roots)].elems \o Visit(h, Tail(roots))

\* the cells of h in the given order, their references renumbered to it
Renumber(h, st, sn, order) ==
  LET pos == [a \in Range(order) |-> CHOOSE i \in 1..Len(order) : order[i] = a]
      root(a) == IF a = 0 THEN 0 ELSE pos[a]
  IN [heap |-> [i \in 1..Len(order) |->
                  [h[order[i]] EXCEPT !.elems = [j \in 1..Len(@) |-> pos[@[j]]]]],
      state |-> [s \in Stores |-> root(st[s])],
      snap |-> [s \in Stores |-> root(sn[s])]]

\* Garbage collection: cells no variable reaches are dropped and the live ones
\* renumbered in visiting order (an address is not observable in JavaScript).
Collect(h, st, sn) ==
  Renumber(h, st, sn, Dedup(Visit(h, <<st[1], sn[1], st[2], sn[2]>>), <<>>))

Commit(h, st, sn) ==
  \E c \in {Collect(h, st, sn)} :
     /\ heap' = c.heap
     /\ state' = c.state
     /\ snap' = c.snap

(* ----------------------- stored text and JSON -------------------------- *)

\* localStorage.getItem returned null: the key is absent
NoItem == [kind |-> "null", elems |-> <<>>]
EmptyText == [kind |-> "empty", elems |-> <<>>]
\* a text JSON.parse rejects
Garbage == [kind |-> "garbage", elems |-> <<>>]
\* a valid JSON text that is a number, e.g. 42
NumberText == [kind |-> "number", elems |-> <<>>]
ArrayText(es) == [kind |-> "array", elems |-> es]

JsonObject(id, title, done) == [kind |-> "object", id |-> id, title |-> title, done |-> done]
JsonNull == [kind |-> "null", id |-> Absent, title |-> Absent, done |-> Absent]
JsonNumber == [kind |-> "number", id |-> Absent, title |-> Absent, done |-> Absent]

\* JSON.stringify of a property value: undefined properties are left out
ToJson(v) == IF v = Undefined THEN Absent ELSE v

\* item.p on a parsed element: a missing property reads as undefined
Prop(v) == IF v = Absent THEN Undefined ELSE v

\* JSON.stringify(state)
Stringify(ts) ==
  ArrayText([i \in 1..Len(ts) |->
               JsonObject(ToJson(ts[i].id), ToJson(ts[i].title), BoolLit(ts[i].done))])

\* if (raw): null and "" are falsy
TruthyText(raw) == raw.kind \notin {"null", "empty"}

(* ----------------------------- createStore ----------------------------- *)

\* mutant: the title is read from a property the records do not have
HydrateMapWrongKey(es) ==
  [i \in 1..Len(es) |->
     [id |-> Prop(es[i].id), title |-> Undefined, done |-> Truthy(Prop(es[i].done))]]

\* mutant: done is kept only when the record holds the boolean true
HydrateMapStrictDone(es) ==
  [i \in 1..Len(es) |->
     [id |-> Prop(es[i].id), title |-> Prop(es[i].title), done |-> es[i].done = "true"]]

\* parsed.map(item => ({ id: item.id, title: item.title, done: !!item.done }))
HydrateMap(es) ==
  [i \in 1..Len(es) |->
     [id |-> Prop(es[i].id), title |-> Prop(es[i].title), done |-> Truthy(Prop(es[i].done))]]

\* mutant: the hydration runs outside any try/catch
hydrateNoCatch(raw, readThrows) ==
  LET thrown == [tasks |-> <<>>, warned |-> FALSE, threw |-> TRUE]
      quiet(ts) == [tasks |-> ts, warned |-> FALSE, threw |-> FALSE]
  IN IF readThrows THEN thrown
     ELSE IF ~TruthyText(raw) THEN quiet(<<>>)
     ELSE IF raw.kind = "garbage" THEN thrown
     ELSE IF raw.kind # "array" THEN quiet(<<>>)
     ELSE IF \E i \in 1..Len(raw.elems) : raw.elems[i].kind = "null"
       THEN thrown
     ELSE quiet(HydrateMap(raw.elems))

\* The try/catch of createStore: what `state` holds after it, whether
\* console.warn ran, and whether an exception left createStore.
\* readThrows: localStorage.getItem itself throws.
hydrate(raw, readThrows) ==
  LET caught == [tasks |-> <<>>, warned |-> TRUE, threw |-> FALSE]
      quiet(ts) == [tasks |-> ts, warned |-> FALSE, threw |-> FALSE]
  IN IF readThrows THEN caught
     ELSE IF ~TruthyText(raw) THEN quiet(<<>>)
     ELSE IF raw.kind = "garbage" THEN caught              \* JSON.parse throws
     ELSE IF raw.kind # "array" THEN quiet(<<>>)           \* Array.isArray is false
     ELSE IF \E i \in 1..Len(raw.elems) : raw.elems[i].kind = "null"
       THEN caught                                         \* null.id is a TypeError
     ELSE quiet(HydrateMap(raw.elems))

(* ------------------------- the store's closures ------------------------ *)

\* mutant: the write adds the records to the array the key holds
persistAppends(ls, key, h, st, writeThrows) ==
  IF writeThrows THEN ls
  ELSE [ls EXCEPT ![key] =
          ArrayText((IF @.kind = "array" THEN @.elems ELSE <<>>) \o Stringify(TasksAt(h, st)).elems)]

\* mutant: a failed write leaves the key removed
persistClearsOnFailure(ls, key, h, st, writeThrows) ==
  IF writeThrows THEN [ls EXCEPT ![key] = NoItem]
  ELSE [ls EXCEPT ![key] = Stringify(TasksAt(h, st))]

\* persist: localStorage.setItem(storageKey, JSON.stringify(state)) in a
\* try/catch.  writeThrows: stringify or setItem throws; nothing is stored.
persist(ls, key, h, st, writeThrows) ==
  IF writeThrows THEN ls ELSE [ls EXCEPT ![key] = Stringify(TasksAt(h, st))]

\* mutant: list returns the closure's own array
listShared(h, st) == [heap |-> h, ref |-> st]

\* list: state.map(item => ({...})): a new array of new objects
list(h, st) ==
  LET ts == TasksAt(h, st)
      h1 == AllocObjs(h, ts)
  IN AllocArr(h1, [i \in 1..Len(ts) |-> Len(h) + i])

\* mutant: the new task is put first (unshift)
addFront(h, st, task) ==
  LET h1 == AllocObjs(h, <<[id |-> task.id, title |-> task.title, done |-> Truthy(task.done)]>>)
  IN AllocArr(h1, <<Len(h1)>> \o h[st].elems)

\* add: state = state.concat([{ id: task.id, title: task.title, done: !!task.done }])
add(h, st, task) ==
  LET h1 == AllocObjs(h, <<[id |-> task.id, title |-> task.title, done |-> Truthy(task.done)]>>)
  IN AllocArr(h1, Append(h[st].elems, Len(h1)))

\* mutant: the flipped copies are appended and the originals kept
toggleAppends(h, st, id) ==
  LET ts == TasksAt(h, st)
      hit == SelectSeq(ts, LAMBDA t : t.id = id)
      h1 == AllocObjs(h, [i \in 1..Len(hit) |-> [hit[i] EXCEPT !.done = ~hit[i].done]])
  IN AllocArr(h1, h[st].elems \o [i \in 1..Len(hit) |-> Len(h) + i])

\* mutant: every task is flipped, whatever its id
toggleAll(h, st, id) ==
  LET ts == TasksAt(h, st)
      h1 == AllocObjs(h, [i \in 1..Len(ts) |-> [ts[i] EXCEPT !.done = ~ts[i].done]])
  IN AllocArr(h1, [i \in 1..Len(ts) |-> Len(h) + i])

\* mutant: a matching task is marked done instead of flipped
toggleSetsDone(h, st, id) ==
  LET ts == TasksAt(h, st)
      h1 == AllocObjs(h, [i \in 1..Len(ts) |->
                            IF ts[i].id = id THEN [ts[i] EXCEPT !.done = TRUE] ELSE ts[i]])
  IN AllocArr(h1, [i \in 1..Len(ts) |-> Len(h) + i])

\* toggle: state = state.map(it => it.id === id ? {..., done: !it.done} : {...})
toggle(h, st, id) ==
  LET ts == TasksAt(h, st)
      h1 == AllocObjs(h, [i \in 1..Len(ts) |->
                            IF ts[i].id = id
                              THEN [ts[i] EXCEPT !.done = ~ts[i].done]
                              ELSE ts[i]])
  IN AllocArr(h1, [i \in 1..Len(ts) |-> Len(h) + i])

\* mutant: only the first task of that id is removed (findIndex + splice)
removeFirst(h, st, id) ==
  LET es == h[st].elems
      hits == {i \in 1..Len(es) : h[es[i]].id = id}
      first == CHOOSE i \in hits : \A j \in hits : i <= j
  IN AllocArr(h, IF hits = {} THEN es
                 ELSE SubSeq(es, 1, first - 1) \o SubSeq(es, first + 1, Len(es)))

\* remove: state = state.filter(it => it.id !== id): a new array of the kept objects
remove(h, st, id) ==
  LET keep(a) == h[a].id # id
  IN AllocArr(h, SelectSeq(h[st].elems, keep))

Tasks(s) == TasksAt(heap, state[s])
Snapshot(s) == TasksAt(heap, snap[s])

(* ------------------------------- inputs -------------------------------- *)

Ids == {"'a'", "'b'"}
Titles == {"'x'"}

\* what a caller may hand to add: a task object, null or undefined
TaskArg(kind, id, title, done) == [kind |-> kind, id |-> id, title |-> title, done |-> done]
TaskArgs ==
  {TaskArg("object", i, t, d) : i \in Ids, t \in Titles, d \in {"true", Undefined}}
    \cup {TaskArg("null", Undefined, Undefined, Undefined),
          TaskArg("undefined", Undefined, Undefined, Undefined)}

\* what a caller may hand to toggle and remove
IdArgs == Ids \cup {Undefined}

\* what the key may hold when the page is opened
Seeds ==
  {NoItem, EmptyText, Garbage, NumberText,
   ArrayText(<<>>),
   ArrayText(<<JsonNull>>),
   ArrayText(<<JsonNumber>>),
   ArrayText(<<JsonObject("'a'", "'x'", "1")>>),
   ArrayText(<<JsonObject("'a'", "'x'", "false"), JsonObject("'a'", "'y'", "true")>>),
   ArrayText(<<JsonObject("'b'", "'y'", Absent), JsonNull>>)}

Mutators == {"add", "toggle", "remove"}

\* The record of a call: its arguments, the storage fault injected into it
\* (getItem throwing for createStore, the write throwing for a mutator), its
\* outcome, and the collection's length before it (n).
Op(op, s, id, fault, threw, warned) ==
  [op |-> op, store |-> s, id |-> id, fault |-> fault, threw |-> threw, warned |-> warned,
   n |-> IF state[s] = 0 THEN 0 ELSE Len(TasksAt(heap, state[s]))]

(* ------------------------------- actions ------------------------------- *)

\* the document before the script has run, and summarize not called yet
NoEvent == [kind |-> "none", value |-> <<>>]
NoPage == [loaded |-> FALSE, active |-> <<>>, done |-> <<>>,
           analytics |-> [active |-> 0, done |-> 0, pct |-> <<0, 0>>], error |-> FALSE,
           event |-> NoEvent]
NoSummary == [active |-> 0, done |-> 0, pct |-> 0]

InitUi ==
  /\ page = NoPage
  /\ sumIn = <<>>
  /\ sumOut = NoSummary

Init ==
  /\ localStorage \in [{StorageKey} -> Seeds]
  /\ heap = <<>>
  /\ state = [s \in Stores |-> 0]
  /\ snap = [s \in Stores |-> 0]
  /\ lastOp = [op |-> "none", store |-> 0, id |-> Undefined, fault |-> FALSE, threw |-> FALSE,
               warned |-> FALSE, n |-> 0]
  /\ hist = [s \in Stores |-> "none"]
  /\ InitUi

\* a write under the key by store s makes every other store's history "other"
Wrote(s, mine) == [t \in Stores |-> IF t = s THEN mine ELSE IF hist[t] = "none" THEN "none" ELSE "other"]

\* const store = createStore(storageKey): also a reload of the page
CreateStore(s, readThrows) ==
  \E r \in {hydrate(localStorage[StorageKey], readThrows)} :
  \E a \in {AllocArr(AllocObjs(heap, r.tasks), [i \in 1..Len(r.tasks) |-> Len(heap) + i])} :
     /\ Commit(a.heap, [state EXCEPT ![s] = a.ref], [snap EXCEPT ![s] = 0])
     /\ lastOp' = Op("createStore", s, Undefined, readThrows, r.threw, r.warned)
     /\ hist' = [hist EXCEPT ![s] = "new"]
     /\ UNCHANGED localStorage

\* mutant: add re-reads the key first and appends to what it holds
AddMerging(s, task, writeThrows) ==
  /\ state[s] # 0
  /\ Len(Tasks(s)) < MaxLen
  /\ task.kind = "object"
  /\ \E r \in {hydrate(localStorage[StorageKey], FALSE)} :
     \E a \in {AllocArr(AllocObjs(heap, r.tasks), [i \in 1..Len(r.tasks) |-> Len(heap) + i])} :
     \E m \in {add(a.heap, a.ref, task)} : \E l \in {list(m.heap, m.ref)} :
        /\ localStorage' = persist(localStorage, StorageKey, m.heap, m.ref, writeThrows)
        /\ Commit(l.heap, [state EXCEPT ![s] = m.ref], [snap EXCEPT ![s] = l.ref])
        /\ lastOp' = Op("add", s, task.id, writeThrows, FALSE, FALSE)
        /\ hist' = IF writeThrows THEN [hist EXCEPT ![s] = "other"]
                   ELSE Wrote(s, IF hist[s] \in {"new", "added"} THEN "added" ELSE "other")

\* store.add(task)
Add(s, task, writeThrows) ==
  /\ state[s] # 0
  /\ Len(Tasks(s)) < MaxLen
  /\ IF task.kind # "object"
       THEN \* task.id throws a TypeError before anything is assigned
            /\ lastOp' = Op("add", s, Undefined, FALSE, TRUE, FALSE)
            /\ UNCHANGED <<localStorage, heap, state, snap, hist>>
       ELSE \E m \in {add(heap, state[s], task)} : \E l \in {list(m.heap, m.ref)} :
               /\ localStorage' = persist(localStorage, StorageKey, m.heap, m.ref, writeThrows)
               /\ Commit(l.heap, [state EXCEPT ![s] = m.ref], [snap EXCEPT ![s] = l.ref])
               /\ lastOp' = Op("add", s, task.id, writeThrows, FALSE, FALSE)
               /\ hist' = IF writeThrows THEN [hist EXCEPT ![s] = "other"]
                          ELSE Wrote(s, IF hist[s] \in {"new", "added"} THEN "added" ELSE "other")

\* mutant: a toggle that matches no task returns early, before persist()
ToggleSkipsPersist(s, id, writeThrows) ==
  /\ state[s] # 0
  /\ \E m \in {toggle(heap, state[s], id)} : \E l \in {list(m.heap, m.ref)} :
        /\ localStorage' = IF id \in {t.id : t \in Range(Tasks(s))}
                             THEN persist(localStorage, StorageKey, m.heap, m.ref, writeThrows)
                             ELSE localStorage
        /\ Commit(l.heap, [state EXCEPT ![s] = m.ref], [snap EXCEPT ![s] = l.ref])
        /\ lastOp' = Op("toggle", s, id, writeThrows, FALSE, FALSE)
        /\ hist' = IF writeThrows THEN [hist EXCEPT ![s] = "other"] ELSE Wrote(s, "other")

\* store.toggle(id)
Toggle(s, id, writeThrows) ==
  /\ state[s] # 0
  /\ \E m \in {toggle(heap, state[s], id)} : \E l \in {list(m.heap, m.ref)} :
        /\ localStorage' = persist(localStorage, StorageKey, m.heap, m.ref, writeThrows)
        /\ Commit(l.heap, [state EXCEPT ![s] = m.ref], [snap EXCEPT ![s] = l.ref])
        /\ lastOp' = Op("toggle", s, id, writeThrows, FALSE, FALSE)
        /\ hist' = IF writeThrows THEN [hist EXCEPT ![s] = "other"] ELSE Wrote(s, "other")

\* store.remove(id)
Remove(s, id, writeThrows) ==
  /\ state[s] # 0
  /\ \E m \in {remove(heap, state[s], id)} : \E l \in {list(m.heap, m.ref)} :
        /\ localStorage' = persist(localStorage, StorageKey, m.heap, m.ref, writeThrows)
        /\ Commit(l.heap, [state EXCEPT ![s] = m.ref], [snap EXCEPT ![s] = l.ref])
        /\ lastOp' = Op("remove", s, id, writeThrows, FALSE, FALSE)
        /\ hist' = IF writeThrows THEN [hist EXCEPT ![s] = "other"] ELSE Wrote(s, "other")

\* mutant: list() reverses the collection in place before copying it
ListReverses(s) ==
  /\ state[s] # 0
  /\ \E ts \in {Tasks(s)} :
     \E a \in {AllocArr(AllocObjs(heap, [i \in 1..Len(ts) |-> ts[Len(ts) + 1 - i]]),
                        [i \in 1..Len(ts) |-> Len(heap) + i])} :
     \E l \in {list(a.heap, a.ref)} :
        /\ Commit(l.heap, [state EXCEPT ![s] = a.ref], [snap EXCEPT ![s] = l.ref])
        /\ lastOp' = Op("list", s, Undefined, FALSE, FALSE, FALSE)
        /\ UNCHANGED <<localStorage, hist>>

\* store.list()
List(s) ==
  /\ state[s] # 0
  /\ \E l \in {list(heap, state[s])} :
        /\ Commit(l.heap, state, [snap EXCEPT ![s] = l.ref])
        /\ lastOp' = Op("list", s, Undefined, FALSE, FALSE, FALSE)
        /\ UNCHANGED <<localStorage, hist>>

\* one page: the store of line 74
Next ==
  \/ \E b \in BOOLEAN : CreateStore(1, b) /\ UNCHANGED ui
  \/ \E t \in TaskArgs, b \in BOOLEAN : Add(1, t, b) /\ UNCHANGED ui
  \/ \E i \in IdArgs, b \in BOOLEAN : Toggle(1, i, b) /\ UNCHANGED ui
  \/ \E i \in IdArgs, b \in BOOLEAN : Remove(1, i, b) /\ UNCHANGED ui
  \/ List(1) /\ UNCHANGED ui

Spec == Init /\ [][Next]_vars

(* ------------------- two pages over the same key ----------------------- *)

\* the tasks the pages' callers add in the two-page runs
TabTaskArgs == {TaskArg("object", "'a'", "'x'", "true"), TaskArg("object", "'b'", "'x'", Undefined)}

TabSeeds == {NoItem, Garbage, ArrayText(<<JsonObject("'b'", "'y'", "1")>>)}

InitTabs ==
  /\ localStorage \in [{StorageKey} -> TabSeeds]
  /\ heap = <<>>
  /\ state = [s \in Stores |-> 0]
  /\ snap = [s \in Stores |-> 0]
  /\ lastOp = [op |-> "none", store |-> 0, id |-> Undefined, fault |-> FALSE, threw |-> FALSE,
               warned |-> FALSE, n |-> 0]
  /\ hist = [s \in Stores |-> "none"]
  /\ InitUi

LenOf(s) == IF state[s] = 0 THEN 0 ELSE Len(Tasks(s))

\* each page runs createStore(`focustasks_${SID4}`) and calls its own store
NextTabs ==
  \/ \E s \in Stores, b \in BOOLEAN : CreateStore(s, b) /\ UNCHANGED ui
  \/ \E s \in Stores, t \in TabTaskArgs, b \in BOOLEAN :
       LenOf(1) + LenOf(2) < MaxTabTasks /\ Add(s, t, b) /\ UNCHANGED ui
  \/ \E s \in Stores : Toggle(s, "'a'", FALSE) /\ UNCHANGED ui

SpecTabs == InitTabs /\ [][NextTabs]_vars

(* ------------------- a caller that writes to snapshots ------------------ *)

\* what the caller writes into a snapshot
SnapTasks ==
  {[id |-> "'a'", title |-> "'x'", done |-> TRUE], [id |-> "'z'", title |-> "'w'", done |-> FALSE]}

\* snapshot[i].id = ...; snapshot[i].title = ...; snapshot[i].done = ...
SnapAssign(s, i, t) ==
  /\ snap[s] # 0
  /\ i \in 1..Len(heap[snap[s]].elems)
  /\ Commit([heap EXCEPT ![heap[snap[s]].elems[i]] = Obj(t.id, t.title, t.done)], state, snap)
  /\ lastOp' = Op("mutateSnapshot", s, Undefined, FALSE, FALSE, FALSE)
  /\ UNCHANGED <<localStorage, hist>>

\* snapshot.push({...})
SnapPush(s, t) ==
  /\ snap[s] # 0
  /\ Len(heap[snap[s]].elems) <= MaxLen
  /\ LET h1 == AllocObjs(heap, <<t>>)
     IN Commit([h1 EXCEPT ![snap[s]].elems = Append(@, Len(h1))], state, snap)
  /\ lastOp' = Op("mutateSnapshot", s, Undefined, FALSE, FALSE, FALSE)
  /\ UNCHANGED <<localStorage, hist>>

\* snapshot.pop()
SnapPop(s) ==
  /\ snap[s] # 0
  /\ heap[snap[s]].elems # <<>>
  /\ Commit([heap EXCEPT ![snap[s]].elems = SubSeq(@, 1, Len(@) - 1)], state, snap)
  /\ lastOp' = Op("mutateSnapshot", s, Undefined, FALSE, FALSE, FALSE)
  /\ UNCHANGED <<localStorage, hist>>

SnapTaskArgs == {TaskArg("object", i, t, "false") : i \in Ids, t \in Titles}

InitSnap ==
  /\ localStorage \in [{StorageKey} -> {NoItem, ArrayText(<<JsonObject("'b'", "'y'", "1")>>)}]
  /\ heap = <<>>
  /\ state = [s \in Stores |-> 0]
  /\ snap = [s \in Stores |-> 0]
  /\ lastOp = [op |-> "none", store |-> 0, id |-> Undefined, fault |-> FALSE, threw |-> FALSE,
               warned |-> FALSE, n |-> 0]
  /\ hist = [s \in Stores |-> "none"]
  /\ InitUi

NextSnap ==
  \/ CreateStore(1, FALSE) /\ UNCHANGED ui
  \/ \E t \in SnapTaskArgs, b \in BOOLEAN : Add(1, t, b) /\ UNCHANGED ui
  \/ \E i \in Ids : Toggle(1, i, FALSE) /\ UNCHANGED ui
  \/ \E i \in Ids : Remove(1, i, FALSE) /\ UNCHANGED ui
  \/ List(1) /\ UNCHANGED ui
  \/ \E i \in 1..MaxLen, t \in SnapTasks : SnapAssign(1, i, t) /\ UNCHANGED ui
  \/ \E t \in SnapTasks : SnapPush(1, t) /\ UNCHANGED ui
  \/ SnapPop(1) /\ UNCHANGED ui

SpecSnap == InitSnap /\ [][NextSnap]_vars

(* ------------------------------ summarize ------------------------------ *)

\* Math.round(num / den) for num >= 0, den > 0: the nearest integer, a half
\* going up.  The code divides and multiplies in doubles; on the lists of
\* this module (at most MaxSumLen tasks, and LongLen tasks) the double result
\* is the exact one, no quotient being within a rounding error of a half.
MathRound(num, den) == (2 * num + den) \div (2 * den)

\* mutant: the percentage is cut (Math.floor) instead of rounded
summarizeFloor(tasks) ==
  LET active == Len(SelectSeq(tasks, LAMBDA t : ~t.done))
      done == Len(SelectSeq(tasks, LAMBDA t : t.done))
      total == active + done
  IN [active |-> active, done |-> done,
      pct |-> IF total = 0 THEN 0 ELSE (done * 1000) \div total]

\* mutant: active counts every task (tasks.length)
summarizeActiveIsLength(tasks) ==
  LET done == Len(SelectSeq(tasks, LAMBDA t : t.done))
      total == Len(tasks)
  IN [active |-> Len(tasks), done |-> done,
      pct |-> IF total = 0 THEN 0 ELSE MathRound(done * 1000, total)]

\* summarize(tasks).  pct is held in tenths of a percent: it is the integer
\* Math.round((done / total) * 1000), which the code then divides by 10.
summarize(tasks) ==
  LET active == Len(SelectSeq(tasks, LAMBDA t : ~t.done))
      done == Len(SelectSeq(tasks, LAMBDA t : t.done))
      total == active + done
  IN [active |-> active, done |-> done,
      pct |-> IF total = 0 THEN 0 ELSE MathRound(done * 1000, total)]

\* a task of a snapshot, as list() returns them
SumTask(d) == [id |-> "'a'", title |-> "'x'", done |-> d]

\* LongLen tasks, all done but the last
LongList == [i \in 1..LongLen |-> SumTask(i < LongLen)]

SumInputs ==
  UNION {[1..n -> {SumTask(TRUE), SumTask(FALSE)}] : n \in 0..MaxSumLen} \cup {LongList}

InitSum ==
  /\ localStorage = [k \in {StorageKey} |-> NoItem]
  /\ heap = <<>>
  /\ state = [s \in Stores |-> 0]
  /\ snap = [s \in Stores |-> 0]
  /\ lastOp = [op |-> "none", store |-> 0, id |-> Undefined, fault |-> FALSE, threw |-> FALSE,
               warned |-> FALSE, n |-> 0]
  /\ hist = [s \in Stores |-> "none"]
  /\ InitUi

\* const s = summarize(tasks)
Summarize(tasks) ==
  /\ sumIn' = tasks
  /\ sumOut' = summarize(tasks)
  /\ UNCHANGED <<localStorage, heap, state, snap, lastOp, hist, page>>

NextSum == \E tasks \in SumInputs : Summarize(tasks)

SpecSum == InitSum /\ [][NextSum]_vars

(* -------------------------------- the page ------------------------------ *)

\* String(v), as the DOM applies it to what is assigned to dataset.id: a
\* string stays, anything else becomes the string of its source text
DomString(v) ==
  IF v \in {Undefined, "null", "true", "false", "0", "1", "NaN"}
    THEN "'" \o v \o "'"
    ELSE v

\* what node.textContent holds after textContent = v: undefined and null
\* give the empty string, a string stays
TextContent(v) == IF v \in {Undefined, "null"} THEN "''" ELSE v

\* toFixed(1) of a number held in tenths: its digits before and after the point
ToFixed1(p) == <<p \div 10, p % 10>>

\* buildTaskNode(task): the row's data-id, title text and checkbox
buildTaskNode(task) ==
  [id |-> DomString(task.id), title |-> TextContent(task.title), checked |-> task.done]

\* renderAnalytics: the three numbers of the analytics line
renderAnalytics(tasks) ==
  LET s == summarize(tasks)
  IN [active |-> s.active, done |-> s.done, pct |-> ToFixed1(s.pct)]

\* mutant: the done list is filled from every task
renderAllDoneShowsAll(tasks) ==
  LET activeTasks == SelectSeq(tasks, LAMBDA t : ~t.done)
  IN [active |-> [i \in 1..Len(activeTasks) |-> buildTaskNode(activeTasks[i])],
      done |-> [i \in 1..Len(tasks) |-> buildTaskNode(tasks[i])],
      analytics |-> renderAnalytics(tasks)]

\* renderAll, on tasks = store.list(): both lists are cleared and refilled
renderAll(tasks) ==
  LET activeTasks == SelectSeq(tasks, LAMBDA t : ~t.done)
      doneTasks == SelectSeq(tasks, LAMBDA t : t.done)
  IN [active |-> [i \in 1..Len(activeTasks) |-> buildTaskNode(activeTasks[i])],
      done |-> [i \in 1..Len(doneTasks) |-> buildTaskNode(doneTasks[i])],
      analytics |-> renderAnalytics(tasks)]

\* what the task input may hold on submit, as its characters: nothing, spaces
\* only, a word, a word between spaces, two words
InputValues ==
  {<<>>, <<" ">>, <<" ", " ">>, <<"x">>, <<" ", "x", " ">>, <<"x", " ", "x">>}

RECURSIVE TrimStart(_)
TrimStart(cs) == IF cs # <<>> /\ Head(cs) = " " THEN TrimStart(Tail(cs)) ELSE cs
RECURSIVE TrimEnd(_)
TrimEnd(cs) == IF cs # <<>> /\ cs[Len(cs)] = " " THEN TrimEnd(SubSeq(cs, 1, Len(cs) - 1)) ELSE cs
\* s.trim()
trim(cs) == TrimEnd(TrimStart(cs))

\* mutant: only the empty text is blank
isBlankNoTrim(s) == Len(s) = 0

\* isBlank(s)
isBlank(s) == Len(trim(s)) = 0

\* the string literal of a text
RECURSIVE Join(_)
Join(cs) == IF cs = <<>> THEN "" ELSE Head(cs) \o Join(Tail(cs))
StrLit(cs) == "'" \o Join(cs) \o "'"

\* what makeId() may return: two calls can give the same string (same
\* millisecond, same random digits)
MadeIds == Ids

\* what the key may hold when the page is opened
UiSeeds ==
  {NoItem, Garbage,
   ArrayText(<<JsonObject("'a'", "'x'", "1"), JsonObject(Absent, "'y'", Absent)>>)}

InitUI ==
  /\ localStorage \in [{StorageKey} -> UiSeeds]
  /\ heap = <<>>
  /\ state = [s \in Stores |-> 0]
  /\ snap = [s \in Stores |-> 0]
  /\ lastOp = [op |-> "none", store |-> 0, id |-> Undefined, fault |-> FALSE, threw |-> FALSE,
               warned |-> FALSE, n |-> 0]
  /\ hist = [s \in Stores |-> "none"]
  /\ InitUi

\* renderAll() at the end of a handler, on the store as the handler left it
RenderNext(ev, err) ==
  \E l \in {list(heap', state'[1])} : \E tasks \in {TasksAt(l.heap, l.ref)} :
  \E r \in {renderAll(tasks)} :
     /\ page' = [loaded |-> TRUE, active |-> r.active, done |-> r.done,
                 analytics |-> r.analytics, error |-> err, event |-> ev]
     /\ sumIn' = tasks
     /\ sumOut' = summarize(tasks)

\* the script runs: createStore, then the initial renderAll()
PageLoad(readThrows) ==
  /\ CreateStore(1, readThrows)
  /\ RenderNext([kind |-> "load", value |-> <<>>], FALSE)

\* the form's submit listener, the input holding value
Submit(value, id, writeThrows) ==
  /\ page.loaded
  /\ IF isBlank(value)
       THEN /\ page' = [page EXCEPT !.error = TRUE, !.event = [kind |-> "submit", value |-> value]]
            /\ UNCHANGED <<localStorage, heap, state, snap, lastOp, hist, sumIn, sumOut>>
       ELSE /\ Add(1, TaskArg("object", id, StrLit(trim(value)), "false"), writeThrows)
            /\ RenderNext([kind |-> "submit", value |-> value], FALSE)

\* the click listener, the target being the checkbox of row i of a list
ClickToggle(lst, i, writeThrows) ==
  /\ page.loaded
  /\ i \in 1..Len(page[lst])
  /\ Toggle(1, page[lst][i].id, writeThrows)
  /\ RenderNext([kind |-> "click-toggle", value |-> <<>>], page.error)

\* the click listener, the target being the delete button of row i of a list
ClickDelete(lst, i, writeThrows) ==
  /\ page.loaded
  /\ i \in 1..Len(page[lst])
  /\ Remove(1, page[lst][i].id, writeThrows)
  /\ RenderNext([kind |-> "click-delete", value |-> <<>>], page.error)

NextUI ==
  \/ \E b \in BOOLEAN : PageLoad(b)
  \/ \E v \in InputValues, id \in MadeIds : Submit(v, id, FALSE)
  \/ \E lst \in {"active", "done"}, i \in 1..MaxLen, b \in BOOLEAN : ClickToggle(lst, i, b)
  \/ \E lst \in {"active", "done"}, i \in 1..MaxLen, b \in BOOLEAN : ClickDelete(lst, i, b)

SpecUI == InitUI /\ [][NextUI]_vars

(* ------------------------- claims: vocabulary -------------------------- *)

Stored == localStorage[StorageKey]

Constructed(s) == s \in Stores /\ state[s] # 0

\* the last call was a mutator that returned
Mutated == lastOp.op \in Mutators /\ ~lastOp.threw

\* text is the JSON array text whose i-th record carries ts[i]'s id, title and done
TextIs(text, ts) ==
  /\ text.kind = "array"
  /\ Len(text.elems) = Len(ts)
  /\ \A i \in 1..Len(ts) :
       /\ text.elems[i].kind = "object"
       /\ text.elems[i].id = (IF ts[i].id = Undefined THEN Absent ELSE ts[i].id)
       /\ text.elems[i].title = (IF ts[i].title = Undefined THEN Absent ELSE ts[i].title)
       /\ text.elems[i].done = (IF ts[i].done THEN "true" ELSE "false")

IdsOf(ts) == {ts[i].id : i \in DOMAIN ts}
NoDup(ts) == \A i, j \in DOMAIN ts : ts[i].id = ts[j].id => i = j
CountId(ts, id) == Cardinality({i \in DOMAIN ts : ts[i].id = id})
WithId(ts, id) == LET has(t) == t.id = id IN SelectSeq(ts, has)
Without(ts, id) == LET keep(t) == t.id # id IN SelectSeq(ts, keep)
\* the collection and the last snapshot of store s after the step
TasksNext(s) == TasksAt(heap', state'[s])
SnapshotNext(s) == TasksAt(heap', snap'[s])

Flipped(ts, id) ==
  [i \in 1..Len(ts) |-> IF ts[i].id = id THEN [ts[i] EXCEPT !.done = ~ts[i].done] ELSE ts[i]]

(* -------------------------------- claims ------------------------------- *)

\* C2: after every mutating call (add, toggle, remove) whose storage write
\* succeeded, the text under the key is the serialization of the full
\* collection as it is after the call, whatever the key held before and
\* whether or not earlier writes failed.
C2_StoredIsCollection ==
  (Mutated /\ ~lastOp.fault) => TextIs(Stored, Tasks(lastOp.store))

\* C2 happens: a toggle's successful write replaced a text that was no array
\* of two records by the serialization of a collection of two
C2_Witness ==
  /\ lastOp.op = "toggle" /\ ~lastOp.fault
  /\ Len(Tasks(lastOp.store)) = 2
  /\ \E i \in 1..2 : Tasks(lastOp.store)[i].done

\* C3: when the write of a mutating call fails, the call returns, the key keeps
\* the text it had, the collection is the mutated one and the returned snapshot
\* (like any later list()) shows it.
C3_WriteFailureKeepsMutation ==
  [][(lastOp'.op \in Mutators /\ lastOp'.fault) =>
       LET s == lastOp'.store
           id == lastOp'.id
       IN /\ ~lastOp'.threw
          /\ localStorage' = localStorage
          /\ lastOp'.op = "add" =>
               /\ Len(TasksNext(s)) = Len(Tasks(s)) + 1
               /\ SubSeq(TasksNext(s), 1, Len(Tasks(s))) = Tasks(s)
               /\ TasksNext(s)[Len(TasksNext(s))].id = id
          /\ lastOp'.op = "toggle" => TasksNext(s) = Flipped(Tasks(s), id)
          /\ lastOp'.op = "remove" => TasksNext(s) = Without(Tasks(s), id)
          /\ SnapshotNext(s) = TasksNext(s)
          /\ TasksAt(list(heap', state'[s]).heap, list(heap', state'[s]).ref) = TasksNext(s)
    ]_vars

\* C3 happens: an add whose write failed left a task in memory and nothing under the key
C3_Witness ==
  /\ lastOp.op = "add" /\ lastOp.fault /\ ~lastOp.threw
  /\ Len(Tasks(lastOp.store)) = 1
  /\ Stored = NoItem

\* C4: constructed over a text that does not parse, or over a valid text that
\* is not an array, the store is empty and createStore did not throw.
C4_MalformedGivesEmpty ==
  (lastOp.op = "createStore" /\ Stored.kind \in {"garbage", "number"}) =>
     /\ ~lastOp.threw
     /\ Constructed(lastOp.store)
     /\ Tasks(lastOp.store) = <<>>

\* C4 happens: a store was constructed over a stored number
C4_Witness ==
  /\ lastOp.op = "createStore" /\ ~lastOp.fault
  /\ Stored = NumberText

\* C5 (as claimed): a warning is logged at construction both when the stored
\* text fails to parse and when it parses to a value that is not an array.
C5_WarnsInBothCases ==
  (lastOp.op = "createStore" /\ Stored.kind \in {"garbage", "number"}) => lastOp.warned

\* C6 (as claimed): no call of createStore, add, toggle, remove or list throws
\* to its caller, whatever the argument and whatever the storage holds or does.
C6_NothingThrows == ~lastOp.threw

\* C8 (as claimed): no two tasks of a store's collection have the same id, in
\* any state reached by construction and any sequence of add, toggle, remove.
C8_NoDuplicateIds == \A s \in Stores : Constructed(s) => NoDup(Tasks(s))

\* the records of a stored array read to pairwise different ids
UniqueStored(text) ==
  text.kind = "array" =>
    \A i, j \in 1..Len(text.elems) :
      Prop(text.elems[i].id) = Prop(text.elems[j].id) => i = j

\* C8 (amended): the store adds no duplicate of its own: a construction over
\* records with pairwise different ids gives a collection without duplicate
\* ids, an add of an id the collection does not hold keeps it without
\* duplicates, and so does every toggle and remove.
C8_DuplicatesOnlyFromCaller ==
  [][\A s \in Stores :
       state'[s] # 0 =>
         IF lastOp'.op = "createStore" /\ lastOp'.store = s
           THEN UniqueStored(Stored) => NoDup(TasksNext(s))
         ELSE IF lastOp'.op = "add" /\ lastOp'.store = s
           THEN (NoDup(Tasks(s)) /\ lastOp'.id \notin IdsOf(Tasks(s))) => NoDup(TasksNext(s))
         ELSE NoDup(Tasks(s)) => NoDup(TasksNext(s))
    ]_vars

\* C8 happens: an add of a new id made a collection of two different ids
C8_Witness ==
  /\ lastOp.op = "add" /\ ~lastOp.threw
  /\ Len(Tasks(lastOp.store)) = 2
  /\ NoDup(Tasks(lastOp.store))

\* C9: an add of an id already held adds one more task of that id (no dedup);
\* remove(id) leaves no task of that id and keeps the tasks of every other id.
C9_DuplicateAddThenRemoveAll ==
  [][LET s == lastOp'.store
         id == lastOp'.id
     IN /\ (lastOp'.op = "add" /\ ~lastOp'.threw) =>
             /\ CountId(TasksNext(s), id) = CountId(Tasks(s), id) + 1
             /\ Len(TasksNext(s)) = Len(Tasks(s)) + 1
        /\ lastOp'.op = "remove" =>
             /\ CountId(TasksNext(s), id) = 0
             /\ \A j \in IdsOf(Tasks(s)) \ {id} : WithId(TasksNext(s), j) = WithId(Tasks(s), j)
             /\ Len(TasksNext(s)) = Len(Tasks(s)) - CountId(Tasks(s), id)
    ]_vars

\* C9 happens: a remove took a collection of two tasks to none, so both had its id
C9_Witness ==
  /\ lastOp.op = "remove"
  /\ lastOp.n = 2
  /\ lastOp.id \in Ids
  /\ Tasks(lastOp.store) = <<>>

\* C10: add puts the new task last and keeps the others in place; toggle keeps
\* every task at its position; remove keeps the remaining tasks in their order.
C10_OrderPreserved ==
  [][LET s == lastOp'.store
         id == lastOp'.id
         old == Tasks(s)
         new == TasksNext(s)
     IN /\ (lastOp'.op = "add" /\ ~lastOp'.threw) =>
             /\ Len(new) = Len(old) + 1
             /\ \A i \in 1..Len(old) : new[i] = old[i]
             /\ new[Len(new)].id = id
        /\ lastOp'.op = "toggle" =>
             /\ Len(new) = Len(old)
             /\ \A i \in 1..Len(old) : new[i].id = old[i].id /\ new[i].title = old[i].title
        /\ lastOp'.op = "remove" =>
             \E f \in [1..Len(new) -> 1..Len(old)] :
               /\ \A i, j \in 1..Len(new) : i < j => f[i] < f[j]
               /\ \A i \in 1..Len(new) : new[i] = old[f[i]]
    ]_vars

\* C10 happens: add(A); add(B); toggle(A.id) gave [A, B] with A done
C10_Witness ==
  /\ lastOp.op = "toggle" /\ lastOp.id = "'a'"
  /\ Len(Tasks(lastOp.store)) = 2
  /\ Tasks(lastOp.store)[1] = [id |-> "'a'", title |-> "'x'", done |-> TRUE]
  /\ Tasks(lastOp.store)[2].id = "'b'"

\* C1: a store constructed (its read succeeding) under the key of a store
\* whose caller, since its own construction, only added tasks, every write
\* succeeding and nobody else writing the key, lists the same sequence as that
\* store does: same length, same order, same id, title and done.
C1_RoundTrip ==
  (lastOp.op = "createStore" /\ ~lastOp.fault) =>
    \A f \in Stores \ {lastOp.store} :
      hist[f] = "added" =>
        /\ Constructed(lastOp.store)
        /\ Len(Tasks(lastOp.store)) = Len(Tasks(f))
        /\ \A i \in 1..Len(Tasks(f)) :
             /\ Tasks(lastOp.store)[i].id = Tasks(f)[i].id
             /\ Tasks(lastOp.store)[i].title = Tasks(f)[i].title
             /\ Tasks(lastOp.store)[i].done = Tasks(f)[i].done

\* C1 happens: the second store was constructed after the first added two
\* tasks, one of them done, on top of a hydrated one
C1_Witness ==
  /\ lastOp.op = "createStore" /\ ~lastOp.fault
  /\ \E f \in Stores \ {lastOp.store} :
       /\ hist[f] = "added"
       /\ Len(Tasks(f)) = 2
       /\ \E i \in 1..2 : Tasks(f)[i].done
       /\ Tasks(lastOp.store) = Tasks(f)

\* C7: a caller's write to a snapshot (a field of one of its tasks, a push, a
\* pop) changes neither the store's collection, nor what list() returns, nor
\* the text under the key.
C7_SnapshotIndependent ==
  [][lastOp'.op = "mutateSnapshot" =>
       LET s == lastOp'.store
           before == list(heap, state[s])
           after == list(heap', state'[s])
       IN /\ TasksNext(s) = Tasks(s)
          /\ TasksAt(after.heap, after.ref) = TasksAt(before.heap, before.ref)
          /\ localStorage' = localStorage
          /\ TextIs(persist(localStorage', StorageKey, heap', state'[s], FALSE)[StorageKey], Tasks(s))
    ]_vars

\* C7 happens: the caller changed the snapshot a mutator returned, so that it
\* differs from the collection
C7_Witness ==
  /\ lastOp.op = "mutateSnapshot"
  /\ snap[lastOp.store] # 0
  /\ Len(Tasks(lastOp.store)) = 2
  /\ Snapshot(lastOp.store) # Tasks(lastOp.store)

\* C11: toggle(id) with an id no task has returns a snapshot equal to the
\* collection before the call and leaves the collection as it was, and still
\* writes the key: when the write succeeds, the text under the key is the
\* serialization of that unchanged collection, whatever it held before.
C11_NoMatchToggleStillPersists ==
  [][(lastOp'.op = "toggle" /\ lastOp'.id \notin IdsOf(Tasks(lastOp'.store))) =>
       LET s == lastOp'.store
       IN /\ TasksNext(s) = Tasks(s)
          /\ SnapshotNext(s) = Tasks(s)
          /\ ~lastOp'.fault => TextIs(localStorage'[StorageKey], Tasks(s))
    ]_vars

\* C11 happens: toggle('b') on a collection holding only a task of id 'a'
C11_Witness ==
  /\ lastOp.op = "toggle" /\ lastOp.id = "'b'" /\ ~lastOp.fault
  /\ Len(Tasks(lastOp.store)) = 1
  /\ Tasks(lastOp.store)[1].id = "'a'"
  /\ Snapshot(lastOp.store) = Tasks(lastOp.store)

\* C14: list() has no side effect: it writes nothing under the key and the
\* collection after the call is the collection before it; what it returns is
\* that collection's tasks.
C14_ListIsPure ==
  [][lastOp'.op = "list" =>
       LET s == lastOp'.store
       IN /\ localStorage' = localStorage
          /\ TasksNext(s) = Tasks(s)
          /\ SnapshotNext(s) = Tasks(s)
    ]_vars

\* C14 happens: list() was called on two tasks of different done flags while
\* the key held something else than the collection, so a write would show
C14_Witness ==
  /\ lastOp.op = "list"
  /\ Len(Tasks(lastOp.store)) = 2
  /\ Tasks(lastOp.store)[1].done # Tasks(lastOp.store)[2].done
  /\ ~TextIs(Stored, Tasks(lastOp.store))

\* C15: a store constructed (its read succeeding) over a key holding an array
\* of records has one task per record, in the records' order, each with its
\* record's id and title and with done true exactly when the record's done is
\* truthy; constructed over an absent key it has no task.
C15_HydrationCopiesRecords ==
  (lastOp.op = "createStore" /\ ~lastOp.fault) =>
    LET ts == Tasks(lastOp.store)
        es == Stored.elems
    IN /\ (Stored.kind = "array" /\ \A i \in 1..Len(es) : es[i].kind = "object") =>
            /\ Len(ts) = Len(es)
            /\ \A i \in 1..Len(es) :
                 /\ ts[i].id = (IF es[i].id = Absent THEN Undefined ELSE es[i].id)
                 /\ ts[i].title = (IF es[i].title = Absent THEN Undefined ELSE es[i].title)
                 /\ ts[i].done = (es[i].done \notin {Absent, "false", "0", "''", "null", "NaN"})
       /\ Stored = NoItem => ts = <<>>

\* C15 happens: the key held [{id:'a', title:'x', done:1}] and the store
\* constructed over it holds that task with done true
C15_Witness ==
  /\ lastOp.op = "createStore" /\ ~lastOp.fault
  /\ Stored = ArrayText(<<JsonObject("'a'", "'x'", "1")>>)
  /\ Tasks(lastOp.store) = <<[id |-> "'a'", title |-> "'x'", done |-> TRUE]>>

\* C16: toggle(id) changes nothing but the done flag of the tasks of that id:
\* the collection keeps its length, every task keeps its id and title, a task
\* of another id keeps its done flag and a task of that id gets the opposite.
C16_ToggleOnlyFlipsDone ==
  [][lastOp'.op = "toggle" =>
       LET s == lastOp'.store
           old == Tasks(s)
           new == TasksNext(s)
       IN /\ Len(new) = Len(old)
          /\ \A i \in 1..Len(old) :
               /\ new[i].id = old[i].id
               /\ new[i].title = old[i].title
               /\ new[i].done = (IF old[i].id = lastOp'.id THEN ~old[i].done ELSE old[i].done)
    ]_vars

\* C16 happens: toggle('a') on [a, b] left a done and b not done
C16_Witness ==
  /\ lastOp.op = "toggle" /\ lastOp.id = "'a'"
  /\ Len(Tasks(lastOp.store)) = 2
  /\ Tasks(lastOp.store)[1].id = "'a'" /\ Tasks(lastOp.store)[1].done
  /\ Tasks(lastOp.store)[2].id = "'b'" /\ ~Tasks(lastOp.store)[2].done

\* C19: toggle is an involution: from every collection the store can hold,
\* toggle(id) applied twice gives back the collection, for every id, also
\* when several tasks share the id.
C19_ToggleTwiceIsIdentity ==
  \A s \in Stores : Constructed(s) =>
    \A id \in IdArgs :
      LET once == toggle(heap, state[s], id)
          twice == toggle(once.heap, once.ref, id)
      IN TasksAt(twice.heap, twice.ref) = Tasks(s)

\* C19 happens: a toggle acted on two tasks of one id with different done flags
C19_Witness ==
  /\ lastOp.op = "toggle" /\ lastOp.id = "'a'"
  /\ Len(Tasks(lastOp.store)) = 2
  /\ Tasks(lastOp.store)[1].id = "'a'" /\ Tasks(lastOp.store)[2].id = "'a'"
  /\ Tasks(lastOp.store)[1].done # Tasks(lastOp.store)[2].done

\* C13: a store reads the key only when it is constructed: a step of another
\* store (its construction, its mutations and the writes they make) changes
\* neither this store's collection nor what its list() returns; and a
\* mutation of a store is computed from that store's own collection alone and,
\* when its write succeeds, leaves under the key that collection in full and
\* nothing else, whatever the other store wrote before.
C13_StoresDoNotSeeEachOther ==
  [][/\ \A t \in Stores \ {lastOp'.store} :
          Constructed(t) =>
            /\ TasksNext(t) = Tasks(t)
            /\ \A before \in {list(heap, state[t])}, after \in {list(heap', state'[t])} :
                 TasksAt(after.heap, after.ref) = TasksAt(before.heap, before.ref)
     /\ (lastOp'.op \in Mutators /\ ~lastOp'.threw) =>
          \A old \in {Tasks(lastOp'.store)}, new \in {TasksNext(lastOp'.store)} :
             /\ ~lastOp'.fault => TextIs(localStorage'[StorageKey], new)
             /\ lastOp'.op = "add" =>
                  Len(new) = Len(old) + 1 /\ SubSeq(new, 1, Len(old)) = old
             /\ lastOp'.op = "toggle" => new = Flipped(old, lastOp'.id)
             /\ lastOp'.op = "remove" => new = Without(old, lastOp'.id)
    ]_vars

\* C13 happens: both stores are constructed, the other one holds a task that
\* the store of the last add does not, and the key holds the latter's collection
C13_Witness ==
  /\ lastOp.op = "add" /\ ~lastOp.fault
  /\ \E t \in Stores \ {lastOp.store} :
       /\ Constructed(t)
       /\ Len(Tasks(t)) = 1
       /\ Len(Tasks(lastOp.store)) = 1
       /\ Tasks(t)[1].id # Tasks(lastOp.store)[1].id
  /\ TextIs(Stored, Tasks(lastOp.store))

\* C12: summarize(tasks) returns active = the number of tasks with done false,
\* done = the number with done true, and pct = 0 for the empty list, otherwise
\* done / (active + done) * 1000 rounded to the nearest integer (a half going
\* up), over 10; [done, done, active] gives {1, 2, 66.7} and [active] gives
\* {1, 0, 0}.
C12_SummarizeCounts ==
  LET nActive == Cardinality({i \in DOMAIN sumIn : ~sumIn[i].done})
      nDone == Cardinality({i \in DOMAIN sumIn : sumIn[i].done})
      total == nActive + nDone
  IN /\ sumOut.active = nActive
     /\ sumOut.done = nDone
     /\ Len(sumIn) = 0 => sumOut.pct = 0
     /\ Len(sumIn) > 0 =>
          /\ 2 * sumOut.pct * total - total <= 2000 * nDone
          /\ 2000 * nDone < 2 * sumOut.pct * total + total
     /\ sumIn = <<SumTask(TRUE), SumTask(TRUE), SumTask(FALSE)>> =>
          sumOut = [active |-> 1, done |-> 2, pct |-> 667]
     /\ sumIn = <<SumTask(FALSE)>> => sumOut = [active |-> 1, done |-> 0, pct |-> 0]

\* C12 happens: summarize was applied to [done, done, active]
C12_Witness ==
  /\ sumIn = <<SumTask(TRUE), SumTask(TRUE), SumTask(FALSE)>>
  /\ sumOut.pct = 667

\* C20 as stated: active + done is the length, pct is between 0 and 100, and
\* pct is 100 exactly when the list is non-empty and every task is done.
C20_HundredOnlyWhenAllDone ==
  /\ sumOut.active + sumOut.done = Len(sumIn)
  /\ 0 <= sumOut.pct /\ sumOut.pct <= 1000
  /\ sumOut.pct = 1000 <=> (Len(sumIn) > 0 /\ \A i \in DOMAIN sumIn : sumIn[i].done)

\* C20, amended: active + done is the length, pct is between 0 and 100, pct is
\* 100 when the list is non-empty and every task is done, and when pct is 100
\* the list is non-empty and at least 99.95% of its tasks are done (so every
\* task of a list shorter than 2000).
C20_HundredWhenAlmostAllDone ==
  /\ sumOut.active + sumOut.done = Len(sumIn)
  /\ 0 <= sumOut.pct /\ sumOut.pct <= 1000
  /\ (Len(sumIn) > 0 /\ \A i \in DOMAIN sumIn : sumIn[i].done) => sumOut.pct = 1000
  /\ sumOut.pct = 1000 =>
       /\ Len(sumIn) > 0
       /\ 2000 * sumOut.done >= 1999 * Len(sumIn)
       /\ Len(sumIn) < 2000 => \A i \in DOMAIN sumIn : sumIn[i].done

\* C20 happens: pct is 100 for a list of LongLen tasks whose last is not done,
\* C20 as stated failing there
C20_Witness ==
  /\ Len(sumIn) = LongLen
  /\ ~sumIn[LongLen].done
  /\ sumOut.pct = 1000

\* C17: a submit whose input is blank (nothing but spaces) does not call the
\* store: the collection, the text under the key and the record of the last
\* store call are as before; a submit whose input is not blank appends exactly
\* one task, not done, whose title is the input without its leading and
\* trailing spaces, and so is not empty.
C17_SubmitAddsOnlyNonBlank ==
  [][page'.event.kind = "submit" =>
       LET v == page'.event.value
           old == Tasks(1)
           new == TasksNext(1)
       IN IF \A i \in DOMAIN v : v[i] = " "
            THEN /\ new = old
                 /\ localStorage' = localStorage
                 /\ lastOp' = lastOp
            ELSE /\ lastOp'.op = "add"
                 /\ Len(new) = Len(old) + 1
                 /\ SubSeq(new, 1, Len(old)) = old
                 /\ ~new[Len(new)].done
                 /\ new[Len(new)].title # "''"
                 /\ \E a, b \in 1..Len(v) :
                      /\ a <= b
                      /\ \A i \in 1..Len(v) : (i < a \/ i > b) => v[i] = " "
                      /\ v[a] # " " /\ v[b] # " "
                      /\ new[Len(new)].title = StrLit(SubSeq(v, a, b))
    ]_vars

\* C17 happens: the form added a task from the input ' x ', its title being
\* 'x', and then a submit of two spaces left it the only task
C17_Witness ==
  /\ page.event = [kind |-> "submit", value |-> <<" ", " ">>]
  /\ page.error
  /\ lastOp.op = "add"
  /\ Len(Tasks(1)) = 1
  /\ Tasks(1)[1].title = "'x'" /\ ~Tasks(1)[1].done
  /\ TextIs(Stored, Tasks(1))

\* the row shows the task: its id as a string, its title, its done flag
Shows(row, t) ==
  /\ row.id = (IF t.id = Undefined THEN "'undefined'" ELSE t.id)
  /\ row.title = (IF t.title = Undefined THEN "''" ELSE t.title)
  /\ row.checked = t.done

\* C18: after the initial render and after every submit that adds, every
\* click on a checkbox and every click on a delete button, the active list
\* shows the store's tasks that are not done and the done list those that
\* are, each in the store's order, every task in exactly one list, and the
\* analytics line shows summarize of that collection.
C18_PageShowsStore ==
  (/\ page.loaded
   /\ \/ page.event.kind \in {"load", "click-toggle", "click-delete"}
      \/ page.event.kind = "submit" /\ \E i \in DOMAIN page.event.value : page.event.value[i] # " ")
  =>
    LET ts == Tasks(1)
        act == SelectSeq(ts, LAMBDA t : ~t.done)
        dn == SelectSeq(ts, LAMBDA t : t.done)
    IN /\ Len(page.active) = Len(act)
       /\ \A i \in 1..Len(act) : Shows(page.active[i], act[i])
       /\ Len(page.done) = Len(dn)
       /\ \A i \in 1..Len(dn) : Shows(page.done[i], dn[i])
       /\ Len(page.active) + Len(page.done) = Len(ts)
       /\ sumIn = ts
       /\ page.analytics.active = summarize(ts).active
       /\ page.analytics.done = summarize(ts).done
       /\ page.analytics.pct = <<summarize(ts).pct \div 10, summarize(ts).pct % 10>>

\* C18 happens: a click on a checkbox left one task in each list, 50.0% done
C18_Witness ==
  /\ page.event.kind = "click-toggle"
  /\ Len(page.active) = 1 /\ Len(page.done) = 1
  /\ page.active[1].id # page.done[1].id
  /\ page.analytics = [active |-> 1, done |-> 1, pct |-> <<50, 0>>]

====
